---- MODULE Spec2Model ----
(***************************************************************************)
(* baton-argo-cd: the RBAC policy document (ConfigMap argocd-rbac-cm, keys *)
(* policy.csv and policy.default) and the client / connector operations    *)
(* that read and rewrite it.                                                *)
(*                                                                         *)
(* Text is modelled symbol by symbol.  A symbol is a one-character string, *)
(* except that the five characters of the role prefix are the one symbol   *)
(* "role:" and every account, role, resource and action name is one letter.*)
(* A line is a sequence of symbols (without its newline), policy.csv is a  *)
(* sequence of lines, a csv field is a sequence of symbols and a record is *)
(* a sequence of fields.                                                    *)
(***************************************************************************)
EXTENDS Integers, Sequences, FiniteSets

VARIABLES
    store,      \* data of ConfigMap argocd-rbac-cm: [hasCsv, csv, hasDef, def]
    accounts,   \* names that "argocd account list" returns
    procs,      \* the callers of the client
    pend,       \* per caller: the call between its read and its patch
    prev,       \* the call completed before the last one
    last,       \* the last completed call
    nops,       \* number of completed calls
    session,    \* the argocd CLI's local configuration holds a valid session
    secrets     \* names with a password entry in Secret argocd-secret

vars == <<store, accounts, procs, pend, prev, last, nops, session, secrets>>

----------------------------------------------------------------------------
(* Bounds *)

\* a policy.csv of the initial state has at most MaxLines lines
MaxLines == 3
\* a behaviour completes at most MaxOps calls
MaxOps == 2
\* a policy.csv of the initial state of two concurrent callers has at most
\* MaxConcLines lines
MaxConcLines == 1
\* a text handed to the parser has at most MaxParseLines lines
MaxParseLines == 3

----------------------------------------------------------------------------
(* Symbols and constants of the code *)

RolePrefix == "role:"
PolicyTypeGrant == "g"
PolicyTypeDefinition == "p"
userGrantPrefix == "g"
CommentChar == "#"
Comma == ","
Space == " "
Quote == "\""

UserA == <<"a">>
UserB == <<"b">>
RoleX == <<"x">>
RoleY == <<"y">>

\* arguments the connector passes: resource ids of accounts / groups and roles
UserIDs == {UserA, UserB}
RoleIDs == {RoleX, RoleY}

----------------------------------------------------------------------------
(* strings package *)

HasPrefix(f) == f # <<>> /\ Head(f) = RolePrefix

TrimPrefix(f) == IF HasPrefix(f) THEN Tail(f) ELSE f

RECURSIVE TrimLeft(_)
TrimLeft(f) == IF f # <<>> /\ Head(f) = Space THEN TrimLeft(Tail(f)) ELSE f

RECURSIVE TrimRight(_)
TrimRight(f) ==
    IF f # <<>> /\ f[Len(f)] = Space THEN TrimRight(SubSeq(f, 1, Len(f) - 1)) ELSE f

TrimSpace(f) == TrimRight(TrimLeft(f))

\* position of the first occurrence of symbol s in f, 0 when there is none
RECURSIVE IndexOf(_, _, _)
IndexOf(f, s, i) ==
    IF i > Len(f) THEN 0
    ELSE IF f[i] = s THEN i
    ELSE IndexOf(f, s, i + 1)

Contains(f, s) == IndexOf(f, s, 1) # 0

----------------------------------------------------------------------------
(* encoding/csv as the code configures it:                                 *)
(* Comment = '#', TrimLeadingSpace = true, FieldsPerRecord = -1            *)

\* a quoted field: rest is the text after the opening quote, acc the field
\* so far; more says that a comma follows the closing quote
RECURSIVE ScanQuoted(_, _)
ScanQuoted(rest, acc) ==
    IF rest = <<>> THEN [err |-> TRUE, field |-> acc, rest |-> <<>>, more |-> FALSE]
    ELSE IF Head(rest) # Quote THEN ScanQuoted(Tail(rest), Append(acc, Head(rest)))
    ELSE LET r2 == Tail(rest)
         IN IF r2 = <<>>
            THEN [err |-> FALSE, field |-> acc, rest |-> <<>>, more |-> FALSE]
            ELSE IF Head(r2) = Quote THEN ScanQuoted(Tail(r2), Append(acc, Quote))
            ELSE IF Head(r2) = Comma
            THEN [err |-> FALSE, field |-> acc, rest |-> Tail(r2), more |-> TRUE]
            ELSE [err |-> TRUE, field |-> acc, rest |-> <<>>, more |-> FALSE]

\* the fields of one line: [err, fields]
RECURSIVE ParseFields(_)
ParseFields(line) ==
    LET t == TrimLeft(line)
    IN IF t # <<>> /\ Head(t) = Quote
       THEN LET q == ScanQuoted(Tail(t), <<>>)
            IN IF q.err THEN [err |-> TRUE, fields |-> <<>>]
               ELSE IF ~q.more THEN [err |-> FALSE, fields |-> <<q.field>>]
               ELSE LET more == ParseFields(q.rest)
                    IN [err |-> more.err, fields |-> <<q.field>> \o more.fields]
       ELSE LET i == IndexOf(t, Comma, 1)
                field == IF i = 0 THEN t ELSE SubSeq(t, 1, i - 1)
            IN IF Contains(field, Quote) THEN [err |-> TRUE, fields |-> <<>>]
               ELSE IF i = 0 THEN [err |-> FALSE, fields |-> <<field>>]
               ELSE LET more == ParseFields(SubSeq(t, i + 1, Len(t)))
                    IN [err |-> more.err, fields |-> <<field>> \o more.fields]

\* a line the reader turns into a record: not empty, not a comment
IsRecordLine(line) == line # <<>> /\ Head(line) # CommentChar

\* FieldsPerRecord = 0: every record must have as many fields as the first
RECURSIVE ReadAllSameCount(_)
ReadAllSameCount(text) ==
    IF text = <<>> THEN [err |-> FALSE, records |-> <<>>]
    ELSE IF ~IsRecordLine(Head(text)) THEN ReadAllSameCount(Tail(text))
    ELSE LET rec == ParseFields(Head(text))
             rest == ReadAllSameCount(Tail(text))
         IN IF \/ rec.err \/ rest.err
               \/ (rest.records # <<>> /\ Len(rest.records[1]) # Len(rec.fields))
            THEN [err |-> TRUE, records |-> <<>>]
            ELSE [err |-> FALSE, records |-> <<rec.fields>> \o rest.records]

\* csv.Reader.ReadAll: [err, records]
RECURSIVE ReadAll(_)
ReadAll(text) ==
    IF text = <<>> THEN [err |-> FALSE, records |-> <<>>]
    ELSE IF ~IsRecordLine(Head(text)) THEN ReadAll(Tail(text))
    ELSE LET rec == ParseFields(Head(text))
             rest == ReadAll(Tail(text))
         IN IF rec.err \/ rest.err THEN [err |-> TRUE, records |-> <<>>]
            ELSE [err |-> FALSE, records |-> <<rec.fields>> \o rest.records]

\* the writer never quotes a field
fieldNeedsQuotesNever(f) == FALSE

fieldNeedsQuotes(f) ==
    /\ f # <<>>
    /\ \/ Contains(f, Comma)
       \/ Contains(f, Quote)
       \/ Head(f) = Space

RECURSIVE EscapeQuotes(_)
EscapeQuotes(f) ==
    IF f = <<>> THEN <<>>
    ELSE IF Head(f) = Quote THEN <<Quote, Quote>> \o EscapeQuotes(Tail(f))
    ELSE <<Head(f)>> \o EscapeQuotes(Tail(f))

WriteField(f) ==
    IF fieldNeedsQuotes(f) THEN <<Quote>> \o EscapeQuotes(f) \o <<Quote>> ELSE f

RECURSIVE WriteRecord(_)
WriteRecord(rec) ==
    IF rec = <<>> THEN <<>>
    ELSE IF Len(rec) = 1 THEN WriteField(rec[1])
    ELSE WriteField(rec[1]) \o <<Comma>> \o WriteRecord(Tail(rec))

\* csv.Writer.WriteAll: one line per record
WriteAll(records) == [i \in 1..Len(records) |-> WriteRecord(records[i])]

----------------------------------------------------------------------------
(* pkg/client/helper.go *)

\* the fields of a record after strings.TrimSpace on each
TrimFields(rec) == [i \in 1..Len(rec) |-> TrimSpace(rec[i])]

RECURSIVE BindingsOf(_)
BindingsOf(records) ==
    IF records = <<>> THEN <<>>
    ELSE LET fields == TrimFields(Head(records))
         IN IF Len(fields) >= 3 /\ fields[1] = <<PolicyTypeGrant>>
            THEN <<[Subject |-> fields[2], Role |-> TrimPrefix(fields[3])]>>
                     \o BindingsOf(Tail(records))
            ELSE BindingsOf(Tail(records))

RECURSIVE PoliciesOf(_)
PoliciesOf(records) ==
    IF records = <<>> THEN <<>>
    ELSE LET fields == TrimFields(Head(records))
         IN IF Len(fields) >= 4 /\ fields[1] = <<PolicyTypeDefinition>>
            THEN <<[Role |-> TrimPrefix(fields[2]), Resource |-> fields[3],
                    Action |-> fields[4]]>> \o PoliciesOf(Tail(records))
            ELSE PoliciesOf(Tail(records))

\* ParseArgoCDPolicyCSV: [err, bindings, policies]
ParseArgoCDPolicyCSV(csvData) ==
    LET r == ReadAll(csvData)
    IN IF r.err THEN [err |-> TRUE, bindings |-> <<>>, policies |-> <<>>]
       ELSE [err |-> FALSE, bindings |-> BindingsOf(r.records),
             policies |-> PoliciesOf(r.records)]

\* roleNames[role] = struct{}{} for a non-empty role: names holds each name once
AddRoleName(names, role) ==
    IF role = <<>> \/ (\E i \in 1..Len(names) : names[i] = role) THEN names
    ELSE Append(names, role)

\* only the role-binding rows are looked at
RECURSIVE RoleNamesOfGrantsOnly(_, _)
RoleNamesOfGrantsOnly(records, names) ==
    IF records = <<>> THEN names
    ELSE LET fields == TrimFields(Head(records))
             role == IF fields[1] = <<PolicyTypeGrant>> /\ Len(fields) >= 3
                     THEN TrimPrefix(fields[3])
                     ELSE <<>>
         IN RoleNamesOfGrantsOnly(Tail(records), AddRoleName(names, role))

\* the loop of getRoleNamesFromCSV over the records, names is the map so far
RECURSIVE RoleNamesOf(_, _)
RoleNamesOf(records, names) ==
    IF records = <<>> THEN names
    ELSE LET fields == TrimFields(Head(records))
             role == IF fields[1] = <<PolicyTypeGrant>> /\ Len(fields) >= 3
                     THEN TrimPrefix(fields[3])
                     ELSE IF fields[1] = <<PolicyTypeDefinition>> /\ Len(fields) >= 4
                     THEN TrimPrefix(fields[2])
                     ELSE <<>>
         IN RoleNamesOf(Tail(records), AddRoleName(names, role))

\* getRoleNamesFromCSV: [err, names]
getRoleNamesFromCSV(csvData) ==
    LET r == ReadAll(csvData)
    IN IF r.err THEN [err |-> TRUE, names |-> <<>>]
       ELSE [err |-> FALSE, names |-> RoleNamesOf(r.records, <<>>)]

\* grep -E '^g,[^,]+,(role:)?ROLE$' on one line of policy.csv
GrepRoleLine(line, roleName) ==
    /\ Len(line) >= 4
    /\ line[1] = PolicyTypeGrant
    /\ line[2] = Comma
    /\ LET rest == SubSeq(line, 3, Len(line))
           i == IndexOf(rest, Comma, 1)
       IN /\ i >= 2
          /\ LET role == SubSeq(rest, i + 1, Len(rest))
             IN role = roleName \/ role = <<RolePrefix>> \o roleName

\* getFilteredPolicyCSV: the lines of policy.csv that grep lets through.  The
\* exit status of the pipeline is grep's, so a kubectl that fails feeds grep
\* nothing and the output is empty.
getFilteredPolicyCSV(st, kubectlFails, grepCmd) ==
    IF kubectlFails \/ ~st.hasCsv THEN <<>>
    ELSE SelectSeq(st.csv, LAMBDA line : grepCmd[line])

\* GetDefaultRole on ConfigMap data that was fetched
GetDefaultRole(st) == IF st.hasDef /\ st.def # <<>> THEN TrimPrefix(st.def) ELSE <<>>

\* getRBACConfigMap fails when kubectl fails or the ConfigMap has no data
getRBACConfigMapFails(st, kubectlFails) == kubectlFails \/ (~st.hasCsv /\ ~st.hasDef)

----------------------------------------------------------------------------
(* Client.GetRoles *)

\* GetRoles: [err, roles]
GetRoles(st, kubectlFails) ==
    LET policyData == IF st.hasCsv THEN st.csv ELSE <<>>
        roleNames == getRoleNamesFromCSV(policyData)
    IN IF getRBACConfigMapFails(st, kubectlFails) \/ roleNames.err
       THEN [err |-> TRUE, roles |-> <<>>]
       ELSE [err |-> FALSE,
             roles |-> IF st.hasDef /\ st.def # <<>>
                       THEN AddRoleName(roleNames.names, TrimPrefix(st.def))
                       ELSE roleNames.names]

----------------------------------------------------------------------------
(* Client.UpdateUserRole, Client.RemoveUserRole, Client.GetRoleSubjects *)

\* the role is written as it was passed
prefixedRoleIDAsPassed(roleID) == roleID

prefixedRoleID(roleID) == IF HasPrefix(roleID) THEN roleID ELSE <<RolePrefix>> \o roleID

\* the loop compares the role field with the role as it was passed
roleExistsAsPassed(records, userID, roleID) ==
    \E i \in 1..Len(records) :
        /\ Len(records[i]) > 2
        /\ records[i][1] = <<userGrantPrefix>>
        /\ records[i][2] = userID
        /\ records[i][3] = roleID

\* the loop that looks for the grant in the records read
roleExists(records, userID, roleID) ==
    \E i \in 1..Len(records) :
        /\ Len(records[i]) > 2
        /\ records[i][1] = <<userGrantPrefix>>
        /\ records[i][2] = userID
        /\ records[i][3] = prefixedRoleID(roleID)

\* the row UpdateUserRole appends
NewGrantRow(userID, roleID) == <<<<userGrantPrefix>>, userID, prefixedRoleID(roleID)>>

\* the new row takes the place of the rows the user had
GrantRecordsReplacing(records, userID, roleID) ==
    Append(SelectSeq(records, LAMBDA record : ~(Len(record) > 2 /\ record[2] = userID)),
           NewGrantRow(userID, roleID))

\* the records UpdateUserRole hands to updateRBACPolicy
GrantRecords(records, userID, roleID) == Append(records, NewGrantRow(userID, roleID))

\* the test of RemoveUserRole's loop: the record is a grant of roleID to userID
IsGrantOf(record, userID, roleID) ==
    /\ Len(record) > 2
    /\ record[1] = <<userGrantPrefix>>
    /\ record[2] = userID
    /\ TrimPrefix(record[3]) = roleID

\* newRecords of RemoveUserRole
newRecords(records, userID, roleID) ==
    SelectSeq(records, LAMBDA record : ~IsGrantOf(record, userID, roleID))

roleRemoved(records, userID, roleID) ==
    \E i \in 1..Len(records) : IsGrantOf(records[i], userID, roleID)

\* GetRoleSubjects: [err, subjects]
GetRoleSubjects(st, kubectlFails, roleName) ==
    LET policyData ==
            getFilteredPolicyCSV(st, kubectlFails,
                [line \in {st.csv[i] : i \in DOMAIN st.csv} |-> GrepRoleLine(line, roleName)])
        parsed == ParseArgoCDPolicyCSV(policyData)
    IN IF policyData = <<>> THEN [err |-> FALSE, subjects |-> <<>>]
       ELSE IF parsed.err THEN [err |-> TRUE, subjects |-> <<>>]
       ELSE [err |-> FALSE,
             subjects |-> [i \in 1..Len(parsed.bindings) |-> parsed.bindings[i].Subject]]

\* grep -E '^g,USER_ID,' on one line of policy.csv
GrepUserLine(line, userID) ==
    /\ Len(line) >= Len(userID) + 3
    /\ SubSeq(line, 1, Len(userID) + 3) = <<PolicyTypeGrant, Comma>> \o userID \o <<Comma>>

\* the lines of policy.csv that the pipeline of GetUserRoles prints
UserPolicyData(st, kubectlFails, userID) ==
    getFilteredPolicyCSV(st, kubectlFails,
        [line \in {st.csv[i] : i \in DOMAIN st.csv} |-> GrepUserLine(line, userID)])

\* the default role is left out
DefaultRolesNone(defaultRole) == <<>>

\* what GetUserRoles returns when grep printed nothing
DefaultRoles(defaultRole) == IF defaultRole # <<>> THEN <<defaultRole>> ELSE <<>>

\* GetUserRoles on the lines grep printed (there is at least one): [err, roles]
ExplicitRoles(policyData) ==
    LET parsed == ParseArgoCDPolicyCSV(policyData)
    IN IF parsed.err THEN [err |-> TRUE, roles |-> <<>>]
       ELSE [err |-> FALSE,
             roles |-> [i \in 1..Len(parsed.bindings) |-> parsed.bindings[i].Role]]

----------------------------------------------------------------------------
(* roleBuilder.Grant, roleBuilder.Grants *)

\* roleBuilder.Grant after UpdateUserRole returned: the call with the grants
\* the connector returns in res (the annotations and the error are those of
\* the client, in out)
roleBuilderGrant(call) ==
    IF call.out = "Error" THEN [call EXCEPT !.res = <<>>]
    ELSE [call EXCEPT !.res = <<[principal |-> call.user, kind |-> "user",
                                 role |-> call.role]>>]

\* every subject is taken for a local user
GrantsOfAllUsers(subjects, localAccounts) ==
    [i \in 1..Len(subjects) |->
        [principal |-> TrimSpace(subjects[i]), kind |-> "user"]]

\* one grant per subject: a user principal for a local account, a group
\* principal (ExternalResourceMatch, shallow GrantExpandable) otherwise
GrantsOf(subjects, localAccounts) ==
    [i \in 1..Len(subjects) |->
        LET subjectName == TrimSpace(subjects[i])
        IN [principal |-> subjectName,
            kind |-> IF subjectName \in localAccounts THEN "user" ELSE "group"]]

----------------------------------------------------------------------------
(* The documents of the initial states *)

\* g,a,role:x
LineAX == <<"g", ",", "a", ",", "role:", "x">>
\* g, a, role:x
LineAXSpaced == <<"g", ",", " ", "a", ",", " ", "role:", "x">>
\* g,a,x
LineAXNoPrefix == <<"g", ",", "a", ",", "x">>
\* g,a ,role:x
LineAXTrailing == <<"g", ",", "a", " ", ",", "role:", "x">>
\* g,a,role:y
LineAY == <<"g", ",", "a", ",", "role:", "y">>
\* g,b,role:x
LineBX == <<"g", ",", "b", ",", "role:", "x">>
\* p,role:y,r,t
LinePY == <<"p", ",", "role:", "y", ",", "r", ",", "t">>
\* # c
LineComment == <<"#", " ", "c">>
\* g,a
LineShort == <<"g", ",", "a">>
\* g,b"
LineBareQuote == <<"g", ",", "b", "\"">>

\* the lines a document is made of, in the order they appear in it
Lines ==
    <<LineComment, LineBX, LineAXSpaced, LinePY, LineAX, LineAXNoPrefix,
      LineAXTrailing, LineAY, LineShort, LineBareQuote>>

RECURSIVE Pick(_, _)
Pick(S, i) ==
    IF i > Len(Lines) THEN <<>>
    ELSE IF i \in S THEN <<Lines[i]>> \o Pick(S, i + 1)
    ELSE Pick(S, i + 1)

Documents ==
    { Pick(S, 1) : S \in { T \in SUBSET (1..Len(Lines)) : Cardinality(T) <= MaxLines } }

Stores ==
    { [hasCsv |-> TRUE, csv |-> d, hasDef |-> hd, def |-> IF hd THEN <<"role:", "x">> ELSE <<>>] :
        d \in Documents, hd \in BOOLEAN }
    \cup { [hasCsv |-> FALSE, csv |-> <<>>, hasDef |-> hd,
            def |-> IF hd THEN <<"role:", "x">> ELSE <<>>] : hd \in BOOLEAN }

----------------------------------------------------------------------------
(* State machine *)

Idle == [op |-> "none", user |-> <<>>, role |-> <<>>, records |-> <<>>,
         ok |-> FALSE, pre |-> <<>>, fault |-> FALSE,
         pc |-> "none", cmds |-> <<>>, predef |-> <<>>]

NoCall == [op |-> "none", user |-> <<>>, role |-> <<>>, out |-> "none",
           pre |-> <<>>, read |-> <<>>, written |-> <<>>, patched |-> FALSE,
           post |-> <<>>, res |-> <<>>, def |-> <<>>, fault |-> FALSE,
           stage |-> "read", rules |-> <<>>, predef |-> <<>>, cmds |-> <<>>]

Init ==
    /\ store \in Stores
    /\ accounts = {UserA}
    /\ procs = {1}
    /\ pend = [c \in procs |-> Idle]
    /\ prev = NoCall
    /\ last = NoCall
    /\ nops = 0
    /\ session = TRUE
    /\ secrets = accounts

\* a call returns: it becomes the last completed call
Complete(call) ==
    /\ prev' = last
    /\ last' = call
    /\ nops' = nops + 1

\* the calls that have started and not returned
InFlight == { d \in procs : pend[d].op # "none" }

CanStart(c) == pend[c].op = "none" /\ nops + Cardinality(InFlight) < MaxOps

\* the text a mutation works on is the one the call before it read
fetchedPolicyCached(st) ==
    IF last.op \in {"grant", "revoke"} THEN last.pre
    ELSE IF st.hasCsv THEN st.csv ELSE <<>>

\* cm.Data[PolicyCSVKey] of the ConfigMap the call has just fetched
fetchedPolicy(st) == IF st.hasCsv THEN st.csv ELSE <<>>

\* UpdateUserRole writes the records back also when the grant is there
GrantReadWriting(c, userID, roleID, kubectlFails) ==
    /\ CanStart(c)
    /\ LET policyCsv == IF store.hasCsv THEN store.csv ELSE <<>>
           r == ReadAll(policyCsv)
           call == [NoCall EXCEPT !.op = "grant", !.user = userID, !.role = roleID,
                                  !.pre = policyCsv,
                                  !.def = GetDefaultRole(store), !.fault = kubectlFails]
       IN IF getRBACConfigMapFails(store, kubectlFails) \/ r.err
          THEN /\ Complete(roleBuilderGrant([call EXCEPT !.out = "Error",
                                                         !.post = store.csv]))
               /\ UNCHANGED <<pend, store>>
          ELSE IF roleExists(r.records, userID, roleID)
          THEN /\ store' = [store EXCEPT !.hasCsv = TRUE, !.csv = WriteAll(r.records)]
               /\ Complete(roleBuilderGrant([call EXCEPT !.out = "AlreadyExists",
                                                         !.read = r.records,
                                                         !.post = store'.csv]))
               /\ UNCHANGED pend
          ELSE /\ pend' = [pend EXCEPT ![c] =
                              [op |-> "grant", user |-> userID, role |-> roleID,
                               records |-> GrantRecords(r.records, userID, roleID),
                               ok |-> store.hasCsv, pre |-> policyCsv,
                               fault |-> FALSE,
                               pc |-> "none", cmds |-> <<>>, predef |-> <<>>]]
               /\ UNCHANGED <<prev, last, nops, store>>
    /\ UNCHANGED <<accounts, procs, session, secrets>>

\* UpdateUserRole up to its return or to the call of updateRBACPolicy
GrantRead(c, userID, roleID, kubectlFails) ==
    /\ CanStart(c)
    /\ LET policyCsv == fetchedPolicy(store)
           r == ReadAll(policyCsv)
           call == [NoCall EXCEPT !.op = "grant", !.user = userID, !.role = roleID,
                                  !.pre = policyCsv, !.post = store.csv,
                                  !.def = GetDefaultRole(store), !.fault = kubectlFails]
       IN IF getRBACConfigMapFails(store, kubectlFails) \/ r.err
          THEN /\ Complete(roleBuilderGrant([call EXCEPT !.out = "Error"]))
               /\ UNCHANGED pend
          ELSE IF roleExists(r.records, userID, roleID)
          THEN /\ Complete(roleBuilderGrant([call EXCEPT !.out = "AlreadyExists",
                                                         !.read = r.records]))
               /\ UNCHANGED pend
          ELSE /\ pend' = [pend EXCEPT ![c] =
                              [op |-> "grant", user |-> userID, role |-> roleID,
                               records |-> GrantRecords(r.records, userID, roleID),
                               ok |-> store.hasCsv, pre |-> policyCsv,
                               fault |-> FALSE,
                               pc |-> "none", cmds |-> <<>>, predef |-> <<>>]]
               /\ UNCHANGED <<prev, last, nops>>
    /\ UNCHANGED <<store, accounts, procs, session, secrets>>

\* RemoveUserRole up to its return or to the call of updateRBACPolicy
RevokeRead(c, userID, roleID, kubectlFails) ==
    /\ CanStart(c)
    /\ LET policyCsv == fetchedPolicy(store)
           r == ReadAll(policyCsv)
           call == [NoCall EXCEPT !.op = "revoke", !.user = userID, !.role = roleID,
                                  !.pre = policyCsv, !.post = store.csv,
                                  !.def = GetDefaultRole(store), !.fault = kubectlFails]
       IN IF getRBACConfigMapFails(store, kubectlFails)
          THEN /\ Complete([call EXCEPT !.out = "Error"])
               /\ UNCHANGED pend
          ELSE IF ~store.hasCsv
          THEN /\ Complete([call EXCEPT !.out = "AlreadyRevoked"])
               /\ UNCHANGED pend
          ELSE IF r.err
          THEN /\ Complete([call EXCEPT !.out = "Error"])
               /\ UNCHANGED pend
          ELSE IF ~roleRemoved(r.records, userID, roleID)
          THEN /\ Complete([call EXCEPT !.out = "AlreadyRevoked", !.read = r.records])
               /\ UNCHANGED pend
          ELSE /\ pend' = [pend EXCEPT ![c] =
                              [op |-> "revoke", user |-> userID, role |-> roleID,
                               records |-> newRecords(r.records, userID, roleID),
                               ok |-> store.hasCsv, pre |-> policyCsv,
                               fault |-> FALSE,
                               pc |-> "none", cmds |-> <<>>, predef |-> <<>>]]
               /\ UNCHANGED <<prev, last, nops>>
    /\ UNCHANGED <<store, accounts, procs, session, secrets>>

\* the patch is refused when policy.csv is no longer the text that was read
patchFailsOnConflict(p, st, kubectlFails) ==
    kubectlFails \/ (p.ok /\ ~st.hasCsv) \/ st.csv # p.pre

\* kubectl patch fails: the command fails, or it is a "replace" (the key was
\* there at the read) of a key that is not there
patchFails(p, st, kubectlFails) == kubectlFails \/ (p.ok /\ ~st.hasCsv)

\* the text is stored although kubectl patch reported a failure
PatchedStoreAlways(st, records, fails) ==
    [st EXCEPT !.hasCsv = TRUE, !.csv = WriteAll(records)]

\* the ConfigMap data after kubectl patch
PatchedStore(st, records, fails) ==
    IF fails THEN st ELSE [st EXCEPT !.hasCsv = TRUE, !.csv = WriteAll(records)]

\* updateRBACPolicy and the return of the call that made it
Patch(c, kubectlFails) ==
    /\ pend[c].op \in {"grant", "revoke"}
    /\ LET p == pend[c]
           fails == patchFails(p, store, kubectlFails)
           call == [NoCall EXCEPT !.op = p.op, !.user = p.user, !.role = p.role,
                                  !.pre = p.pre, !.written = p.records,
                                  !.read = ReadAll(p.pre).records,
                                  !.def = GetDefaultRole(store), !.fault = kubectlFails,
                                  !.stage = "patch", !.patched = ~fails,
                                  !.out = IF fails THEN "Error" ELSE "Applied"]
           done == IF p.op = "grant" THEN roleBuilderGrant(call) ELSE call
       IN /\ store' = PatchedStore(store, p.records, fails)
          /\ Complete([done EXCEPT !.post = store'.csv])
    /\ pend' = [pend EXCEPT ![c] = Idle]
    /\ UNCHANGED <<accounts, procs, session, secrets>>

\* Client.GetRoleSubjects
RoleSubjects(c, roleName, kubectlFails) ==
    /\ CanStart(c)
    /\ LET r == GetRoleSubjects(store, kubectlFails, roleName)
       IN Complete([NoCall EXCEPT !.op = "subjects", !.role = roleName,
                                  !.out = IF r.err THEN "Error" ELSE "Ok",
                                  !.pre = store.csv, !.post = store.csv,
                                  !.res = r.subjects, !.def = GetDefaultRole(store),
                                  !.fault = kubectlFails])
    /\ UNCHANGED <<store, accounts, procs, pend, session, secrets>>

\* Client.GetRoles
Roles(c, kubectlFails) ==
    /\ CanStart(c)
    /\ LET r == GetRoles(store, kubectlFails)
       IN Complete([NoCall EXCEPT !.op = "roles",
                                  !.out = IF r.err THEN "Error" ELSE "Ok",
                                  !.pre = store.csv, !.post = store.csv,
                                  !.res = r.roles, !.def = GetDefaultRole(store),
                                  !.fault = kubectlFails])
    /\ UNCHANGED <<store, accounts, procs, pend, session, secrets>>

\* GetUserRoles up to its return or to the call of GetDefaultRole
UserRolesRead(c, userID, kubectlFails) ==
    /\ CanStart(c)
    /\ LET policyData == UserPolicyData(store, kubectlFails, userID)
           r == ExplicitRoles(policyData)
           call == [NoCall EXCEPT !.op = "userroles", !.user = userID,
                                  !.pre = store.csv, !.post = store.csv,
                                  !.predef = GetDefaultRole(store),
                                  !.def = GetDefaultRole(store), !.fault = kubectlFails]
       IN IF policyData = <<>>
          THEN /\ pend' = [pend EXCEPT ![c] =
                              [Idle EXCEPT !.op = "userroles", !.user = userID,
                                           !.pre = store.csv, !.fault = kubectlFails,
                                           !.predef = GetDefaultRole(store)]]
               /\ UNCHANGED <<prev, last, nops>>
          ELSE /\ Complete([call EXCEPT !.out = IF r.err THEN "Error" ELSE "Ok",
                                        !.res = r.roles])
               /\ UNCHANGED pend
    /\ UNCHANGED <<store, accounts, procs, session, secrets>>

\* GetDefaultRole inside GetUserRoles, and the return of GetUserRoles
UserRolesDefault(c, kubectlFails) ==
    /\ pend[c].op = "userroles"
    /\ LET p == pend[c]
           call == [NoCall EXCEPT !.op = "userroles", !.user = p.user,
                                  !.pre = p.pre, !.post = store.csv,
                                  !.predef = p.predef,
                                  !.def = GetDefaultRole(store),
                                  !.fault = p.fault \/ kubectlFails,
                                  !.stage = "default"]
       IN IF getRBACConfigMapFails(store, kubectlFails)
          THEN Complete([call EXCEPT !.out = "Error"])
          ELSE Complete([call EXCEPT !.out = "Ok",
                                     !.res = DefaultRoles(GetDefaultRole(store))])
    /\ pend' = [pend EXCEPT ![c] = Idle]
    /\ UNCHANGED <<store, accounts, procs, session, secrets>>

\* roleBuilder.Grants
Grants(c, roleName, accountsFail, kubectlFails) ==
    /\ CanStart(c)
    /\ LET r == GetRoleSubjects(store, kubectlFails, roleName)
           call == [NoCall EXCEPT !.op = "grants", !.role = roleName,
                                  !.pre = store.csv, !.post = store.csv,
                                  !.def = GetDefaultRole(store),
                                  !.fault = accountsFail \/ kubectlFails]
       IN IF accountsFail \/ r.err
          THEN Complete([call EXCEPT !.out = "Error"])
          ELSE Complete([call EXCEPT !.out = "Ok", !.res = GrantsOf(r.subjects, accounts)])
    /\ UNCHANGED <<store, accounts, procs, pend, session, secrets>>

Next ==
    \E c \in procs :
        \/ \E u \in UserIDs, r \in RoleIDs, f \in BOOLEAN : GrantRead(c, u, r, f)
        \/ \E u \in UserIDs, r \in RoleIDs, f \in BOOLEAN : RevokeRead(c, u, r, f)
        \/ \E f \in BOOLEAN : Patch(c, f)
        \/ \E r \in RoleIDs, f \in BOOLEAN : RoleSubjects(c, r, f)
        \/ \E u \in UserIDs, f \in BOOLEAN : UserRolesRead(c, u, f)
        \/ \E f \in BOOLEAN : UserRolesDefault(c, f)
        \/ \E f \in BOOLEAN : Roles(c, f)
        \/ \E r \in RoleIDs, fa \in BOOLEAN, f \in BOOLEAN : Grants(c, r, fa, f)

Spec == Init /\ [][Next]_vars

\* two callers use the client at the same time
InitConc ==
    /\ store \in { st \in Stores : Len(st.csv) <= MaxConcLines }
    /\ accounts = {UserA}
    /\ procs = {1, 2}
    /\ pend = [c \in procs |-> Idle]
    /\ prev = NoCall
    /\ last = NoCall
    /\ nops = 0
    /\ session = TRUE
    /\ secrets = accounts

SpecConc == InitConc /\ [][Next]_vars

\* another writer of ConfigMap argocd-rbac-cm replaces its data, policy.csv
\* and policy.default together
ExternalApply(st) ==
    /\ nops + Cardinality(InFlight) < MaxOps
    /\ st # store
    /\ store' = st
    /\ Complete([NoCall EXCEPT !.op = "external", !.out = "Ok",
                               !.pre = store.csv, !.post = st.csv,
                               !.predef = GetDefaultRole(store),
                               !.def = GetDefaultRole(st), !.patched = TRUE])
    /\ UNCHANGED <<accounts, procs, pend, session, secrets>>

\* one caller uses the client while the ConfigMap has another writer
InitWriters ==
    /\ store \in { st \in Stores : Len(st.csv) <= MaxConcLines }
    /\ accounts = {UserA}
    /\ procs = {1}
    /\ pend = [c \in procs |-> Idle]
    /\ prev = NoCall
    /\ last = NoCall
    /\ nops = 0
    /\ session = TRUE
    /\ secrets = accounts

NextWriters ==
    \/ Next
    \/ \E st \in { t \in Stores : Len(t.csv) <= MaxConcLines } : ExternalApply(st)

SpecWriters == InitWriters /\ [][NextWriters]_vars

TypeOK ==
    /\ store.hasCsv \in BOOLEAN
    /\ nops \in 0..MaxOps
    /\ last.out \in {"none", "Applied", "AlreadyExists", "AlreadyRevoked", "Error", "Ok"}

----------------------------------------------------------------------------
(* ParseArgoCDPolicyCSV and the csv round trip on texts of all row shapes *)

\*  g , a , role:x  (spaces around every field)
ParseLinePadded ==
    <<" ", "g", " ", ",", " ", "a", " ", ",", " ", "role:", "x", " ">>
\* g,b,role:y,e
ParseLineLongGrant == <<"g", ",", "b", ",", "role:", "y", ",", "e">>
\* p,y,r
ParseLineShortRule == <<"p", ",", "y", ",", "r">>
\* q,a,x
ParseLineUnknown == <<"q", ",", "a", ",", "x">>
\* g,"a,b",role:x
ParseLineQuoted == <<"g", ",", "\"", "a", ",", "b", "\"", ",", "role:", "x">>
\* an empty line
ParseLineBlank == <<>>

ParseLines ==
    <<LineAX, ParseLinePadded, LineShort, ParseLineLongGrant, LinePY,
      ParseLineShortRule, ParseLineUnknown, ParseLineQuoted, LineComment,
      ParseLineBlank, LineBareQuote>>

RECURSIVE PickFrom(_, _, _)
PickFrom(L, S, i) ==
    IF i > Len(L) THEN <<>>
    ELSE IF i \in S THEN <<L[i]>> \o PickFrom(L, S, i + 1)
    ELSE PickFrom(L, S, i + 1)

ParseDocuments ==
    { PickFrom(ParseLines, S, 1) :
        S \in { T \in SUBSET (1..Len(ParseLines)) : Cardinality(T) <= MaxParseLines } }

InitParse ==
    /\ store \in { [hasCsv |-> TRUE, csv |-> d, hasDef |-> FALSE, def |-> <<>>] :
                      d \in ParseDocuments }
    /\ accounts = {UserA}
    /\ procs = {1}
    /\ pend = [c \in procs |-> Idle]
    /\ prev = NoCall
    /\ last = NoCall
    /\ nops = 0
    /\ session = TRUE
    /\ secrets = accounts

\* ParseArgoCDPolicyCSV on the text of policy.csv
Parse(c) ==
    /\ CanStart(c)
    /\ LET parsed == ParseArgoCDPolicyCSV(store.csv)
       IN Complete([NoCall EXCEPT !.op = "parse",
                                  !.out = IF parsed.err THEN "Error" ELSE "Ok",
                                  !.pre = store.csv, !.post = store.csv,
                                  !.res = parsed.bindings, !.rules = parsed.policies])
    /\ UNCHANGED <<store, accounts, procs, pend, session, secrets>>

\* the records read from policy.csv are written back by updateRBACPolicy and
\* the text stored is parsed
RoundTrip(c) ==
    /\ CanStart(c)
    /\ LET r == ReadAll(store.csv)
           call == [NoCall EXCEPT !.op = "roundtrip", !.pre = store.csv,
                                  !.read = r.records, !.written = r.records,
                                  !.stage = "patch"]
       IN IF r.err
          THEN /\ Complete([call EXCEPT !.out = "Error", !.post = store.csv])
               /\ UNCHANGED store
          ELSE /\ store' = PatchedStore(store, r.records, FALSE)
               /\ LET parsed == ParseArgoCDPolicyCSV(store'.csv)
                  IN Complete([call EXCEPT !.out = IF parsed.err THEN "Error" ELSE "Ok",
                                           !.patched = TRUE, !.post = store'.csv,
                                           !.res = parsed.bindings,
                                           !.rules = parsed.policies])
    /\ UNCHANGED <<accounts, procs, pend, session, secrets>>

NextParse == \E c \in procs : Parse(c) \/ RoundTrip(c)

SpecParse == InitParse /\ [][NextParse]_vars

----------------------------------------------------------------------------
(* GetAccounts and the session of the argocd CLI *)

\* the argocd command run at a position of runArgoCDCommandWithOutput
CommandAt(pc) ==
    CASE pc = "check" -> "get-user-info"
      [] pc = "logout" -> "logout"
      [] pc = "login" -> "login"
      [] pc = "verify" -> "get-user-info"
      [] OTHER -> "list"

\* executeCommand returns nil: the process ran, and a command that needs the
\* session found one in the CLI's configuration
commandOk(cmd, sess, commandFails) ==
    /\ ~commandFails
    /\ cmd \in {"get-user-info", "list"} => sess

\* the session in the CLI's configuration after the command
sessionAfter(cmd, sess, ok) ==
    IF cmd = "logout" /\ ok THEN FALSE
    ELSE IF cmd = "login" /\ ok THEN TRUE
    ELSE sess

\* the requested command runs right after a login that succeeded
ensureLoggedInStepUnverified(pc, ok) ==
    CASE pc = "check" -> IF ok THEN "list" ELSE "logout"
      [] pc = "logout" -> "login"
      [] pc = "login" -> IF ok THEN "list" ELSE "failed"
      [] OTHER -> IF ok THEN "list" ELSE "failed"

\* ensureLoggedIn: the position after a command and its result
ensureLoggedInStep(pc, ok) ==
    CASE pc = "check" -> IF ok THEN "list" ELSE "logout"
      [] pc = "logout" -> "login"
      [] pc = "login" -> IF ok THEN "verify" ELSE "failed"
      [] OTHER -> IF ok THEN "list" ELSE "failed"

\* the accounts of the JSON that argocd account list prints
AccountList(names) ==
    CHOOSE q \in [1..Cardinality(names) -> names] : { q[i] : i \in DOMAIN q } = names

\* GetAccounts up to the first get-user-info of ensureLoggedIn
AccountsCheck(c, commandFails) ==
    /\ CanStart(c)
    /\ LET ok == commandOk("get-user-info", session, commandFails)
       IN pend' = [pend EXCEPT ![c] =
                      [Idle EXCEPT !.op = "accounts",
                                   !.pc = ensureLoggedInStep("check", ok),
                                   !.cmds = <<[cmd |-> "get-user-info", ok |-> ok]>>,
                                   !.fault = commandFails]]
    /\ UNCHANGED <<store, accounts, procs, prev, last, nops, session, secrets>>

\* logout, login and verification of ensureLoggedIn, one command at a time
AccountsRelogin(c, commandFails) ==
    /\ pend[c].op = "accounts"
    /\ pend[c].pc \in {"logout", "login", "verify"}
    /\ LET p == pend[c]
           cmd == CommandAt(p.pc)
           ok == commandOk(cmd, session, commandFails)
           next == ensureLoggedInStep(p.pc, ok)
           cmds == Append(p.cmds, [cmd |-> cmd, ok |-> ok])
           fault == p.fault \/ commandFails
       IN /\ session' = sessionAfter(cmd, session, ok)
          /\ IF next = "failed"
             THEN /\ Complete([NoCall EXCEPT !.op = "accounts", !.out = "Error",
                                             !.pre = store.csv, !.post = store.csv,
                                             !.cmds = cmds, !.fault = fault])
                  /\ pend' = [pend EXCEPT ![c] = Idle]
             ELSE /\ pend' = [pend EXCEPT ![c] =
                                 [p EXCEPT !.pc = next, !.cmds = cmds, !.fault = fault]]
                  /\ UNCHANGED <<prev, last, nops>>
    /\ UNCHANGED <<store, accounts, procs, secrets>>

\* argocd account list after ensureLoggedIn returned nil, and the return of
\* GetAccounts
AccountsList(c, commandFails) ==
    /\ pend[c].op = "accounts"
    /\ pend[c].pc = "list"
    /\ LET p == pend[c]
           ok == commandOk("list", session, commandFails)
       IN Complete([NoCall EXCEPT !.op = "accounts",
                                  !.out = IF ok THEN "Ok" ELSE "Error",
                                  !.res = IF ok THEN AccountList(accounts) ELSE <<>>,
                                  !.pre = store.csv, !.post = store.csv,
                                  !.cmds = Append(p.cmds, [cmd |-> "list", ok |-> ok]),
                                  !.fault = p.fault \/ commandFails])
    /\ pend' = [pend EXCEPT ![c] = Idle]
    /\ UNCHANGED <<store, accounts, procs, session, secrets>>

\* two callers list the accounts; the CLI may start without a session
InitLogin ==
    /\ store \in { st \in Stores : Len(st.csv) = 0 }
    /\ accounts \in {{UserA}, {UserA, UserB}}
    /\ procs = {1, 2}
    /\ pend = [c \in procs |-> Idle]
    /\ prev = NoCall
    /\ last = NoCall
    /\ nops = 0
    /\ session \in BOOLEAN
    /\ secrets = accounts

NextLogin ==
    \E c \in procs, f \in BOOLEAN :
        \/ AccountsCheck(c, f)
        \/ AccountsRelogin(c, f)
        \/ AccountsList(c, f)

SpecLogin == InitLogin /\ [][NextLogin]_vars

----------------------------------------------------------------------------
(* CreateAccount *)

\* the Secret is patched whatever the patch of the ConfigMap returned
createAccountStepSecretAnyway(pc, ok) ==
    CASE pc = "configmap" -> "secret"
      [] OTHER -> IF ok THEN "role" ELSE "failed"

\* CreateAccount: the position after a kubectl patch and its result
createAccountStep(pc, ok) ==
    CASE pc = "configmap" -> IF ok THEN "secret" ELSE "failed"
      [] OTHER -> IF ok THEN "role" ELSE "failed"

\* the entries of a ConfigMap / Secret after kubectl patch with op "add"
AddEntry(entries, username, ok) == IF ok THEN entries \cup {username} ELSE entries

\* the *Account that CreateAccount returns
NewAccount(username) == [Name |-> username, Enabled |-> TRUE]

\* CreateAccount up to its return or to the patch of argocd-secret
CreateAccountConfigMap(c, username, hashFails, kubectlFails) ==
    /\ CanStart(c)
    /\ LET ok == ~kubectlFails
           cmds == <<[cmd |-> "patch configmap", ok |-> ok]>>
           call == [NoCall EXCEPT !.op = "create", !.user = username, !.out = "Error",
                                  !.pre = store.csv, !.post = store.csv,
                                  !.fault = kubectlFails]
       IN IF hashFails
          THEN /\ Complete([call EXCEPT !.stage = "hash", !.fault = FALSE])
               /\ UNCHANGED <<accounts, pend>>
          ELSE /\ accounts' = AddEntry(accounts, username, ok)
               /\ IF createAccountStep("configmap", ok) = "failed"
                  THEN /\ Complete([call EXCEPT !.stage = "configmap", !.cmds = cmds])
                       /\ UNCHANGED pend
                  ELSE /\ pend' = [pend EXCEPT ![c] =
                                      [Idle EXCEPT !.op = "create", !.user = username,
                                                   !.pc = createAccountStep("configmap", ok),
                                                   !.cmds = cmds, !.pre = store.csv,
                                                   !.fault = kubectlFails]]
                       /\ UNCHANGED <<prev, last, nops>>
    /\ UNCHANGED <<store, procs, session, secrets>>

\* the patch of argocd-secret, up to the return or to the default role
CreateAccountSecret(c, kubectlFails) ==
    /\ pend[c].op = "create"
    /\ pend[c].pc = "secret"
    /\ LET p == pend[c]
           ok == ~kubectlFails
           cmds == Append(p.cmds, [cmd |-> "patch secret", ok |-> ok])
           fault == p.fault \/ kubectlFails
       IN /\ secrets' = AddEntry(secrets, p.user, ok)
          /\ IF createAccountStep("secret", ok) = "failed"
             THEN /\ Complete([NoCall EXCEPT !.op = "create", !.user = p.user,
                                             !.out = "Error", !.stage = "secret",
                                             !.pre = p.pre, !.post = store.csv,
                                             !.cmds = cmds, !.fault = fault])
                  /\ pend' = [pend EXCEPT ![c] = Idle]
             ELSE /\ pend' = [pend EXCEPT ![c] =
                                 [p EXCEPT !.pc = createAccountStep("secret", ok),
                                           !.cmds = cmds, !.fault = fault]]
                  /\ UNCHANGED <<prev, last, nops>>
    /\ UNCHANGED <<store, accounts, procs, session>>

\* GetDefaultRole and UpdateUserRole at the end of CreateAccount, whose
\* errors are logged only, and the return of the account
CreateAccountRole(c, getFails, readFails, patchKubectlFails) ==
    /\ pend[c].op = "create"
    /\ pend[c].pc = "role"
    /\ LET p == pend[c]
           defaultRole == IF getRBACConfigMapFails(store, getFails) THEN <<>>
                          ELSE GetDefaultRole(store)
           r == ReadAll(fetchedPolicy(store))
           writes == /\ defaultRole # <<>>
                     /\ ~getRBACConfigMapFails(store, readFails)
                     /\ ~r.err
                     /\ ~roleExists(r.records, p.user, defaultRole)
           fails == patchFails([ok |-> store.hasCsv], store, patchKubectlFails)
       IN /\ store' = IF writes
                      THEN PatchedStore(store, GrantRecords(r.records, p.user, defaultRole),
                                        fails)
                      ELSE store
          /\ Complete([NoCall EXCEPT !.op = "create", !.user = p.user, !.out = "Ok",
                                     !.stage = "role", !.res = <<NewAccount(p.user)>>,
                                     !.pre = p.pre, !.post = store'.csv,
                                     !.def = defaultRole, !.cmds = p.cmds,
                                     !.patched = writes /\ ~fails,
                                     !.fault = p.fault \/ getFails \/ readFails
                                                 \/ patchKubectlFails])
    /\ pend' = [pend EXCEPT ![c] = Idle]
    /\ UNCHANGED <<accounts, procs, session, secrets>>

\* one caller creates accounts; the built-in account has its password
InitAccount ==
    /\ store \in { st \in Stores : Len(st.csv) <= MaxConcLines }
    /\ accounts = {UserA}
    /\ procs = {1}
    /\ pend = [c \in procs |-> Idle]
    /\ prev = NoCall
    /\ last = NoCall
    /\ nops = 0
    /\ session = TRUE
    /\ secrets = accounts

NextAccount ==
    \E c \in procs :
        \/ \E u \in UserIDs, h \in BOOLEAN, f \in BOOLEAN : CreateAccountConfigMap(c, u, h, f)
        \/ \E f \in BOOLEAN : CreateAccountSecret(c, f)
        \/ \E fg \in BOOLEAN, fr \in BOOLEAN, fp \in BOOLEAN : CreateAccountRole(c, fg, fr, fp)

SpecAccount == InitAccount /\ [][NextAccount]_vars

----------------------------------------------------------------------------
(* Vocabulary of the properties *)

Range(q) == { q[i] : i \in 1..Len(q) }

\* the role bindings / permission rules of a policy.csv, in document order
Bindings(text) == ParseArgoCDPolicyCSV(text).bindings
Policies(text) == ParseArgoCDPolicyCSV(text).policies
Parses(text) == ~ParseArgoCDPolicyCSV(text).err

Binding(subject, role) == [Subject |-> subject, Role |-> role]

\* the document holds a binding of the role to the subject
Holds(text, subject, role) == Binding(subject, role) \in Range(Bindings(text))

\* how many rows of the document bind the role to the subject
CountOf(text, subject, role) ==
    Cardinality({ i \in 1..Len(Bindings(text)) : Bindings(text)[i] = Binding(subject, role) })

\* the subject has no binding to any role
NoBindings(text, subject) == \A i \in 1..Len(Bindings(text)) : Bindings(text)[i].Subject # subject

Records(text) == ReadAll(text).records

IsGrantRow(record) == Len(record) > 2 /\ record[1] = <<"g">>

SameCall(c1, c2) == c1.op = c2.op /\ c1.user = c2.user /\ c1.role = c2.role

Returned(call) == call.out # "Error"

----------------------------------------------------------------------------
(* Properties *)

\* C1: idempotent grant.  A Grant of a binding that the document read does
\* not hold returns Applied; a second Grant of the same binding right after
\* it returns AlreadyExists and leaves the stored policy.csv as the first
\* call left it.
C1_IdempotentGrant ==
    /\ (last.op = "grant" /\ Returned(last) /\ ~Holds(last.pre, last.user, last.role))
           => last.out = "Applied"
    /\ (/\ prev.op = "grant" /\ SameCall(prev, last)
        /\ Returned(prev) /\ Returned(last)
        /\ ~Holds(prev.pre, prev.user, prev.role))
           => /\ prev.out = "Applied"
              /\ last.out = "AlreadyExists"
              /\ last.post = prev.post

C1_Witness ==
    /\ prev.op = "grant" /\ SameCall(prev, last)
    /\ ~Holds(prev.pre, prev.user, prev.role)
    /\ prev.out = "Applied" /\ last.out = "AlreadyExists"
    /\ Len(prev.pre) >= 2

\* C2: Grant never introduces a duplicate binding.  Whenever the document
\* read holds the binding as ParseArgoCDPolicyCSV reads it, Grant returns
\* AlreadyExists and the stored document has no more bindings of the role to
\* the subject than the document read.
C2_NoDuplicateIntroduced ==
    (last.op = "grant" /\ Returned(last) /\ Holds(last.pre, last.user, last.role))
        => /\ last.out = "AlreadyExists"
           /\ CountOf(last.post, last.user, last.role) <= CountOf(last.pre, last.user, last.role)

\* C3: idempotent revoke.  On a document that holds the binding, a Revoke
\* returns Applied, a second Revoke of the same binding right after it returns
\* AlreadyRevoked, and the stored document is as the first call left it.
C3_IdempotentRevoke ==
    (/\ prev.op = "revoke" /\ SameCall(prev, last)
     /\ Returned(prev) /\ Returned(last)
     /\ Holds(prev.pre, prev.user, prev.role))
        => /\ prev.out = "Applied"
           /\ last.out = "AlreadyRevoked"
           /\ last.post = prev.post

\* C4: revoke of the default role is a no-op.  Whenever the role revoked is
\* the non-empty default role, Revoke returns AlreadyRevoked and the stored
\* document is the one that was read.
C4_DefaultRoleFloor ==
    (last.op = "revoke" /\ Returned(last) /\ last.def # <<>> /\ last.role = last.def)
        => /\ last.out = "AlreadyRevoked"
           /\ last.post = last.pre

\* C5: a Revoke that returns Applied removes every row that binds the
\* subject to the role and nothing else: the bindings of the stored document
\* are the other bindings of the document read, in their order, and the
\* permission rules are those of the document read, in their order.
C5_RevokeRemovesExactly ==
    (last.op = "revoke" /\ last.out = "Applied")
        => /\ Bindings(last.post) =
                  SelectSeq(Bindings(last.pre),
                            LAMBDA b : b # Binding(last.user, last.role))
           /\ Policies(last.post) = Policies(last.pre)

\* C6: Grant is additive.  A Grant that returns Applied stores the rows it
\* read, unchanged and in their order, followed by the one row
\* g,<subject>,role:<role>; the bindings of the document read are all still
\* there and the permission rules are unchanged.
C6_GrantAdditive ==
    (last.op = "grant" /\ last.out = "Applied")
        => /\ Records(last.post) =
                  Append(Records(last.pre), <<<<"g">>, last.user, <<"role:">> \o last.role>>)
           /\ Bindings(last.post) =
                  Append(Bindings(last.pre), Binding(last.user, last.role))
           /\ Policies(last.post) = Policies(last.pre)

C6_Witness ==
    /\ last.op = "grant" /\ last.out = "Applied"
    /\ Len(Bindings(last.pre)) >= 2
    /\ Len(Policies(last.pre)) >= 1
    /\ \E i \in 1..Len(Bindings(last.pre)) : Bindings(last.pre)[i].Subject = last.user

\* C7: comment lines survive a mutation.  Every line of the document read
\* that begins with '#' is a line of the document stored by a Grant or
\* Revoke that returns Applied.
C7_CommentsSurvive ==
    last.out = "Applied"
        => \A i \in 1..Len(last.pre) :
               (last.pre[i] # <<>> /\ Head(last.pre[i]) = "#")
                   => last.pre[i] \in Range(last.post)

C9_DefaultRoleMembers ==
    (/\ last.op = "grants" /\ last.out = "Ok" /\ ~last.fault /\ Parses(last.pre)
     /\ last.def # <<>> /\ last.role = last.def)
        => \A acc \in accounts :
               LET listed == \E i \in 1..Len(last.res) : last.res[i].principal = acc
               IN (listed /\ ~Holds(last.pre, acc, last.role)) <=> NoBindings(last.pre, acc)

\* C10: explicit role members.  The role-member lookup returns exactly the
\* subjects of the rows that ParseArgoCDPolicyCSV maps to the role.
C10_RoleSubjectsExact ==
    (last.op = "subjects" /\ last.out = "Ok" /\ ~last.fault /\ Parses(last.pre))
        => Range(last.res) =
               { Bindings(last.pre)[i].Subject :
                   i \in { k \in 1..Len(Bindings(last.pre)) :
                             Bindings(last.pre)[k].Role = last.role } }

\* the listing has an entry for the principal
Listed(res, name) == \E i \in 1..Len(res) : res[i].principal = name

\* the roles the bindings of the document give to the subject
RolesOf(text, subject) ==
    { Bindings(text)[i].Role :
        i \in { k \in 1..Len(Bindings(text)) : Bindings(text)[k].Subject = subject } }

\* C11: default-role exclusivity across a grant.  A local account without any
\* binding is listed as a member of the non-empty default role D; after a
\* Grant of another role R to it returned Applied, the next listing of D does
\* not contain it and the next listing of R contains it.
C11_DefaultRoleExclusive ==
    /\ (/\ last.op = "grants" /\ last.out = "Ok" /\ ~last.fault /\ Parses(last.pre)
        /\ last.def # <<>> /\ last.role = last.def)
           => \A acc \in accounts : NoBindings(last.pre, acc) => Listed(last.res, acc)
    /\ (/\ prev.op = "grant" /\ prev.out = "Applied" /\ prev.user \in accounts
        /\ NoBindings(prev.pre, prev.user) /\ prev.def # <<>> /\ prev.role # prev.def
        /\ last.op = "grants" /\ last.out = "Ok" /\ ~last.fault)
           => /\ last.role = prev.def => ~Listed(last.res, prev.user)
              /\ last.role = prev.role => Listed(last.res, prev.user)

\* C12: roles of a subject.  GetUserRoles returns the roles of the bindings
\* of the subject; when the subject has no binding it returns the default
\* role alone if there is one and nothing otherwise; the default role is
\* never added to explicit roles.
C12_UserRoles ==
    (last.op = "userroles" /\ last.out = "Ok" /\ ~last.fault /\ Parses(last.pre))
        => Range(last.res) =
               IF RolesOf(last.pre, last.user) # {} THEN RolesOf(last.pre, last.user)
               ELSE IF last.def # <<>> THEN {last.def}
               ELSE {}

C14_StoreFailuresReported ==
    (last.op \in {"subjects", "userroles", "grants"} /\ last.fault)
        => last.out = "Error"

\* C15: lost update.  A Grant or Revoke whose patch comes after another
\* caller's Applied patch, but which read the document before that patch, is
\* not refused: it returns Applied and stores the rows it read with its own
\* change alone, so a binding the other caller granted to a different subject
\* is no longer in the stored document.
C15_StaleWriteWins ==
    (/\ prev.out = "Applied" /\ prev.user # last.user
     /\ last.stage = "patch" /\ ~last.fault /\ last.pre = prev.pre)
        => /\ last.out = "Applied"
           /\ store.csv = last.post
           /\ last.op = "grant"
                  => Records(last.post) =
                         Append(Records(last.pre),
                                <<<<"g">>, last.user, <<"role:">> \o last.role>>)
           /\ last.op = "revoke"
                  => Range(Records(last.post)) \subseteq Range(Records(last.pre))
           /\ (prev.op = "grant" /\ ~Holds(prev.pre, prev.user, prev.role))
                  => ~Holds(last.post, prev.user, prev.role)

C15_Witness ==
    /\ prev.op = "grant" /\ prev.out = "Applied" /\ prev.user # last.user
    /\ last.op \in {"grant", "revoke"} /\ last.out = "Applied"
    /\ last.pre = prev.pre
    /\ Holds(prev.post, prev.user, prev.role)
    /\ ~Holds(store.csv, prev.user, prev.role)

\* C16: a failed write-back has no effect and is not reported as success.
\* When the patch of a Grant or Revoke fails, the call returns an error, the
\* connector returns no grant, and the stored policy.csv is the one that was
\* read.
C16_FailedWriteBack ==
    (last.stage = "patch" /\ last.fault)
        => /\ last.out = "Error"
           /\ ~last.patched
           /\ last.res = <<>>
           /\ last.post = last.pre
           /\ store.csv = last.pre

C16_Witness ==
    /\ last.stage = "patch" /\ last.fault /\ last.out = "Error"
    /\ Len(last.pre) >= 2
    /\ WriteAll(last.written) # last.pre

\* C17: no-op outcomes perform no write.  A step in which a Grant returns
\* AlreadyExists or a Revoke returns AlreadyRevoked leaves the ConfigMap data
\* as it was.
C17_NoOpNoWrite ==
    [][(nops' = nops + 1 /\ last'.out \in {"AlreadyExists", "AlreadyRevoked"})
           => (store' = store /\ ~last'.patched)]_vars

C17_Witness ==
    /\ last.op = "grant" /\ last.out = "AlreadyExists"
    /\ \E i \in 1..Len(last.pre) : Head(last.pre[i]) = "#"

\* C18: the three results of roleBuilder.Grant.  One grant of the role to
\* the user when the binding was added, no grant (with the GrantAlreadyExists
\* annotation and no error) when the binding was there, and no grant with an
\* error when the client call failed.
C18_GrantOutcomes ==
    last.op = "grant"
        => /\ last.out \in {"Applied", "AlreadyExists", "Error"}
           /\ last.out = "Applied"
                  => last.res = <<[principal |-> last.user, kind |-> "user",
                                   role |-> last.role]>>
           /\ last.out = "AlreadyExists" => last.res = <<>>
           /\ last.out = "Error" => last.res = <<>>

C20_MembersOnce ==
    /\ (last.op = "subjects" /\ last.out = "Ok")
           => \A i, j \in 1..Len(last.res) : last.res[i] = last.res[j] => i = j
    /\ (last.op = "grants" /\ last.out = "Ok")
           => \A i, j \in 1..Len(last.res) :
                  last.res[i].principal = last.res[j].principal => i = j

\* C23: known roles.  GetRoles returns, each once and without the role:
\* prefix, the roles named in the role-binding rows, the roles named in the
\* permission-rule rows (also those without a subject) and the non-empty
\* default role, and no other role.
C23_KnownRoles ==
    (last.op = "roles" /\ last.out = "Ok")
        => /\ Range(last.res) =
                  ({ Bindings(last.pre)[i].Role : i \in 1..Len(Bindings(last.pre)) }
                   \cup { Policies(last.pre)[i].Role : i \in 1..Len(Policies(last.pre)) }
                   \cup (IF last.def # <<>> THEN {last.def} ELSE {})) \ {<<>>}
           /\ \A i, j \in 1..Len(last.res) : last.res[i] = last.res[j] => i = j
           /\ \A i \in 1..Len(last.res) : ~HasPrefix(last.res[i])
           /\ Parses(last.pre)

C23_Witness ==
    /\ last.op = "roles" /\ last.out = "Ok"
    /\ last.def = RoleX
    /\ RoleY \in Range(last.res) /\ RoleX \in Range(last.res)
    /\ \A i \in 1..Len(Bindings(last.pre)) : Bindings(last.pre)[i].Role # RoleY
    /\ Len(Bindings(last.pre)) >= 2

\* the fields of a line without quotes: the text between the commas, each
\* with the spaces at both ends removed
RECURSIVE SplitCommas(_)
SplitCommas(line) ==
    LET i == IndexOf(line, ",", 1)
    IN IF i = 0 THEN <<TrimSpace(line)>>
       ELSE <<TrimSpace(SubSeq(line, 1, i - 1))>>
                \o SplitCommas(SubSeq(line, i + 1, Len(line)))

\* a name with a leading role: removed
Unprefixed(name) == IF name # <<>> /\ Head(name) = "role:" THEN Tail(name) ELSE name

IsRow(line) == line # <<>> /\ Head(line) # "#"

\* what the rows of a text without quotes stand for, row by row: a g row
\* with at least 3 fields is one binding, a p row with at least 4 fields is
\* one rule, every other row is nothing
RECURSIVE RowBindings(_)
RowBindings(text) ==
    IF text = <<>> THEN <<>>
    ELSE LET f == SplitCommas(Head(text))
         IN IF IsRow(Head(text)) /\ f[1] = <<"g">> /\ Len(f) >= 3
            THEN <<Binding(f[2], Unprefixed(f[3]))>> \o RowBindings(Tail(text))
            ELSE RowBindings(Tail(text))

RECURSIVE RowRules(_)
RowRules(text) ==
    IF text = <<>> THEN <<>>
    ELSE LET f == SplitCommas(Head(text))
         IN IF IsRow(Head(text)) /\ f[1] = <<"p">> /\ Len(f) >= 4
            THEN <<[Role |-> Unprefixed(f[2]), Resource |-> f[3], Action |-> f[4]]>>
                     \o RowRules(Tail(text))
            ELSE RowRules(Tail(text))

NoQuotes(text) == \A i \in 1..Len(text) : ~Contains(text[i], "\"")

\* the two sequences have the same elements the same number of times
SameMultiset(q1, q2) ==
    /\ Len(q1) = Len(q2)
    /\ \A x \in Range(q1) \cup Range(q2) :
           Cardinality({ i \in 1..Len(q1) : q1[i] = x })
               = Cardinality({ i \in 1..Len(q2) : q2[i] = x })

C22_RoundTrip ==
    (last.op = "roundtrip" /\ Parses(last.pre))
        => /\ last.out = "Ok"
           /\ SameMultiset(last.res, Bindings(last.pre))
           /\ SameMultiset(last.rules, Policies(last.pre))

C22_Witness ==
    /\ last.op = "roundtrip" /\ last.out = "Ok"
    /\ ParseLineQuoted \in Range(last.pre)
    /\ ParseLinePadded \in Range(last.pre)
    /\ last.post # last.pre
    /\ Len(last.res) = 2

\* C24: no caching.  A Grant or Revoke decides on the policy.csv that was
\* stored when the call before it returned, not on a document an earlier call
\* read, and it has read that document before it writes.
C24_NoCaching ==
    (last.op \in {"grant", "revoke"} /\ (last.stage = "patch" \/ ~last.fault))
        => /\ prev.op # "none" => last.pre = prev.post
           /\ last.patched => (last.stage = "patch" /\ last.read = Records(last.pre))
           /\ last.out = "AlreadyExists" => Holds(prev.post, last.user, last.role)
                                                \/ prev.op = "none"

C24_Witness ==
    /\ prev.out = "Applied" /\ prev.post # prev.pre
    /\ last.op \in {"grant", "revoke"} /\ last.out = "Applied"
    /\ last.pre = prev.post

\* the document the store held before the recorded calls
InitialDocument == IF prev.op # "none" THEN prev.pre ELSE last.pre

\* the call changed the store for the pair
AppliedOn(call, subject, role) ==
    /\ call.op \in {"grant", "revoke"} /\ call.out = "Applied"
    /\ call.user = subject /\ TrimPrefix(call.role) = role

\* C25: serial consistency of bindings.  After Grants and Revokes that ran one
\* at a time with no store failure, the stored document holds a binding iff
\* the last call on the pair that returned Applied was a Grant, or no call on
\* the pair returned Applied and the initial document held the binding.
C25_SerialConsistency ==
    (/\ last.op \in {"grant", "revoke"} /\ prev.op \in {"none", "grant", "revoke"}
     /\ ~last.fault /\ ~prev.fault
     /\ \A c \in procs : pend[c].op = "none")
        => \A subject \in UserIDs, role \in {RoleX, RoleY} :
              Holds(store.csv, subject, role) <=>
                  IF AppliedOn(last, subject, role) THEN last.op = "grant"
                  ELSE IF AppliedOn(prev, subject, role) THEN prev.op = "grant"
                  ELSE Holds(InitialDocument, subject, role)

\* C26: Grant then Revoke is the identity on bindings.  When a Grant returned
\* Applied and a Revoke of the same pair follows directly, the Revoke returns
\* Applied and the stored document has the bindings and the permission rules,
\* as multisets, of the document before the Grant.
C26_GrantRevokeIdentity ==
    (/\ prev.op = "grant" /\ prev.out = "Applied"
     /\ last.op = "revoke" /\ last.user = prev.user
     /\ TrimPrefix(last.role) = TrimPrefix(prev.role)
     /\ ~last.fault /\ last.pre = prev.post)
        => /\ last.out = "Applied"
           /\ SameMultiset(Bindings(last.post), Bindings(prev.pre))
           /\ SameMultiset(Policies(last.post), Policies(prev.pre))

\* the argocd commands of the callers, in flight and returned
Histories == { pend[c].cmds : c \in procs } \cup {prev.cmds, last.cmds}

\* the commands of one GetAccounts are in the order of ensureLoggedIn
LoginOrdered(h) ==
    /\ h # <<>> => h[1].cmd = "get-user-info"
    /\ \A i \in 1..Len(h) :
          /\ h[i].cmd = "logout" => (i = 2 /\ ~h[1].ok)
          /\ h[i].cmd = "login" => (i = 3 /\ h[2].cmd = "logout")
          /\ (h[i].cmd = "get-user-info" /\ i > 1)
                => (i = 4 /\ h[3].cmd = "login" /\ h[3].ok)
          /\ h[i].cmd = "list"
                => \/ i = 2 /\ h[1].ok
                   \/ i = 5 /\ h[4].cmd = "get-user-info" /\ h[4].ok

\* C27: two GetAccounts calls that run at the same time, with credentials
\* that are valid and no command failing by itself, both return the account
\* list: the logout and login of one do not take away the session of the other.
C27_ConcurrentSessions ==
    (/\ prev.op = "accounts" /\ last.op = "accounts"
     /\ ~prev.fault /\ ~last.fault)
        => /\ prev.out = "Ok" /\ last.out = "Ok"
           /\ Range(prev.res) = accounts /\ Range(last.res) = accounts

\* C28: login protocol ordering.  account list runs only after ensureLoggedIn
\* succeeded; logout and login run only after a failed get-user-info, in the
\* order logout, login, get-user-info; a failed login or verification ends the
\* call with an error and the requested command is not run.
C28_LoginOrdering ==
    /\ \A h \in Histories : LoginOrdered(h)
    /\ \A call \in {prev, last} :
          call.op = "accounts" =>
              LET h == call.cmds
                  e == h[Len(h)]
              IN /\ \A i \in 1..(Len(h) - 1) :
                        h[i].ok \/ h[i].cmd = "logout" \/ i = 1
                 /\ e.cmd = "list" => call.out = (IF e.ok THEN "Ok" ELSE "Error")
                 /\ e.cmd # "list" => /\ call.out = "Error" /\ ~e.ok
                                      /\ e.cmd = (IF Len(h) = 3 THEN "login"
                                                  ELSE "get-user-info")
                                      /\ Len(h) \in {3, 4}

C28_Witness ==
    /\ prev.op = "accounts" /\ prev.out = "Error"
    /\ prev.cmds[Len(prev.cmds)].cmd = "login"
    /\ last.op = "accounts" /\ last.out = "Ok" /\ Len(last.cmds) = 5

\* the roles of the subject in one state of the store: the roles of its
\* bindings, or the default role alone when it has none
RolesForSubject(text, defaultRole, subject) ==
    IF RolesOf(text, subject) # {} THEN RolesOf(text, subject)
    ELSE IF defaultRole # <<>> THEN {defaultRole}
    ELSE {}

\* grep prints exactly the lines that bind the subject
GrepExact(text, subject) ==
    \A i \in DOMAIN text :
        GrepUserLine(text[i], subject) <=> RolesOf(<<text[i]>>, subject) # {}

\* C29: GetUserRoles reflects a single store state.  Its result is the roles
\* of the subject in one state, bindings and default role together, that the
\* store held during the call: the state of its first read or the state of its
\* last read, also when another writer changed the store in between.
C29_SingleState ==
    (/\ last.op = "userroles" /\ last.out = "Ok" /\ ~last.fault
     /\ Parses(last.pre) /\ Parses(last.post)
     /\ GrepExact(last.pre, last.user))
        => Range(last.res) \in
               { RolesForSubject(last.pre, last.predef, last.user),
                 RolesForSubject(last.post, last.def, last.user) }

\* C30: CreateAccount step order.  argocd-secret is patched only after the
\* patch of argocd-cm succeeded, so a name has a password entry only when it
\* has an account entry; when the ConfigMap patch fails the call returns an
\* error and no Secret patch is run; when the Secret patch fails the call
\* returns an error and the account entry of the ConfigMap is still there.
C30_CreateStepOrder ==
    /\ secrets \subseteq accounts
    /\ \A h \in { pend[c].cmds : c \in procs } \cup {last.cmds, prev.cmds} :
          \A i \in 1..Len(h) :
              h[i].cmd = "patch secret"
                  => (i = 2 /\ h[1].cmd = "patch configmap" /\ h[1].ok)
    /\ \A call \in {prev, last} :
          (call.op = "create" /\ call.stage # "hash") =>
              LET h == call.cmds
              IN /\ h[1].cmd = "patch configmap"
                 /\ ~h[1].ok => (Len(h) = 1 /\ call.out = "Error")
                 /\ (Len(h) = 2 /\ ~h[2].ok)
                        => (call.out = "Error" /\ call.user \in accounts)
                 /\ call.out = "Ok"
                        => (Len(h) = 2 /\ h[2].ok /\ call.user \in accounts \cap secrets)

C30_Witness ==
    /\ prev.op = "create" /\ prev.user = UserB /\ prev.out = "Error"
    /\ prev.stage = "configmap"
    /\ last.op = "create" /\ last.user = UserB /\ last.out = "Error"
    /\ last.stage = "secret"
    /\ UserB \in accounts /\ UserB \notin secrets

====
